---- MODULE Spec2Model ----
(***************************************************************************)
(* A model of python_data_parsers: the rosbag reader (rosbag_parser.py),   *)
(* the dictionary post-processing (dict_utils.py) and the SI prefix        *)
(* conversion (units.py).                                                  *)
(*                                                                         *)
(* numpy arrays are records [kind |-> "nd", shape, data]: the shape tuple  *)
(* and the elements in row-major order.  Python's None is the record       *)
(* [kind |-> "none"], a dict built by parse_message is [kind |-> "dict",   *)
(* tbl |-> a function from keys to values], and a raised exception is      *)
(* [kind |-> "raise", exc |-> its class name].                             *)
(***************************************************************************)
EXTENDS Integers, Sequences, FiniteSets, TLC

VARIABLES
    ros_data_dict,  \* parse_topics: topic -> table (rosbag_parser.py:102)
    hist,           \* ghost: topic -> the records read on it, in container order
    pc,             \* parse_topics: "reading", "returned" or "raised"
    exc,            \* parse_topics: the exception that ended the read, or "none"
    nread,          \* ghost: the number of records read from the container
    last_read,      \* ghost: the record read last: its topic, whether it decoded
    in_dict_before, \* ghost: the in_dict of the last parse_message call, before it
    in_dict_after,  \* ghost: the same dict after the call
    raised_at,      \* ghost: the place in the record of the field that raised
    dict_tuple,     \* merge_dictionaries: its argument, [items, oneShot]
    merge_arg0,     \* ghost: the tables of dict_tuple before the call
    merge_ret,      \* merge_dictionaries: None before the call, then its outcome
    post_data,      \* dict_utils: the table the functions are called on
    post_op,        \* dict_utils: the function called, "none" before the call
    post_ret,       \* dict_utils: what the function returned or raised
    si_name,        \* si_prefix_to_base_from_str: its argument name
    si_value,       \* si_prefix_to_base_from_str: its argument value
    si_ret,         \* si_prefix_to_base_from_str: None, then its result
    plot_xdata,     \* TimeSeriesPlotter.xdata
    plot_ydata,     \* TimeSeriesPlotter.ydata
    _lower_bound,   \* SelectionPlotter._lower_bound
    _upper_bound,   \* SelectionPlotter._upper_bound
    _highlight_plot \* TimeSeriesPlotter._highlight_plot: the data it shows

parseVars == <<ros_data_dict, hist, pc, exc, nread,
              last_read, in_dict_before, in_dict_after, raised_at>>

mergeVars == <<dict_tuple, merge_arg0, merge_ret>>

postVars == <<post_data, post_op, post_ret>>

unitsVars == <<si_name, si_value, si_ret>>

plotVars == <<plot_xdata, plot_ydata, _lower_bound, _upper_bound, _highlight_plot>>

vars == <<parseVars, mergeVars, postVars, unitsVars, plotVars>>

(***************************************************************************)
(* Bounds of the model.                                                    *)
(***************************************************************************)
MaxRecords == 4
MaxTables == 3
MaxKeys == 2
MaxTuple == 2
MaxPieces == 3
MaxSamples == 2

(***************************************************************************)
(* numpy                                                                   *)
(***************************************************************************)
None == [kind |-> "none"]

Nd(shape, data) == [kind |-> "nd", shape |-> shape, data |-> data]

Raise(e) == [kind |-> "raise", exc |-> e]

EmptyDict == [kind |-> "dict", tbl |-> <<>>]

RECURSIVE Prod(_)
Prod(s) == IF s = <<>> THEN 1 ELSE Head(s) * Prod(Tail(s))

\* ndarray.size
Size(a) == Prod(a.shape)

\* np.ones(shape)
np_ones(shape) == Nd(shape, [i \in 1..Prod(shape) |-> 1])

\* scalar * ndarray
np_scale(c, a) == Nd(a.shape, [i \in 1..Len(a.data) |-> c * a.data[i]])

\* np.atleast_2d, which np.row_stack (np.vstack) applies to each argument
np_atleast_2d(a) ==
    IF Len(a.shape) = 0 THEN Nd(<<1, 1>>, a.data)
    ELSE IF Len(a.shape) = 1 THEN Nd(<<1>> \o a.shape, a.data)
    ELSE a

\* a[np.newaxis, ...]
np_newaxis(a) == Nd(<<1>> \o a.shape, a.data)

\* np.concatenate((a, b), axis=0): the arrays must have the same number of
\* dimensions, at least one, and agree on every axis but the first
np_concatenate0(a, b) ==
    IF \/ Len(a.shape) = 0
       \/ Len(a.shape) # Len(b.shape)
       \/ Tail(a.shape) # Tail(b.shape)
    THEN Raise("ValueError")
    ELSE Nd(<<a.shape[1] + b.shape[1]>> \o Tail(a.shape), a.data \o b.data)

\* np.row_stack((a, b))
np_row_stack(a, b) == np_concatenate0(np_atleast_2d(a), np_atleast_2d(b))

\* np.append(a, value) with no axis: both are flattened
np_append_flat(a, value) == Nd(<<Len(a.data) + 1>>, a.data \o <<value>>)

(***************************************************************************)
(* rosbag_parser.py                                                        *)
(***************************************************************************)
SENTINEL == -1717

\* Time stamps are held in milliseconds: sec + nanosec * 1e-9 seconds.
MsPerSec == 1000
NsPerMs == 1000000

parse_scalar(value, in_array) ==
    IF in_array = None THEN Nd(<<1>>, <<value>>)
    ELSE np_append_flat(in_array, value)

parse_time_stamp(header, in_array) ==
    LET secs == header.sec
        nsecs == header.nanosec
        stamp == secs * MsPerSec + (nsecs \div NsPerMs)
    IN  parse_scalar(stamp, in_array)

parse_array(value_array, in_array) ==
    LET np_array == Nd(<<Len(value_array)>>, value_array)
    IN  IF in_array = None /\ Size(np_array) = 0 THEN None
        ELSE IF in_array = None THEN np_array
        ELSE IF Size(np_array) = 0
             THEN np_row_stack(in_array,
                               np_scale(SENTINEL, np_ones(Tail(in_array.shape))))
        ELSE np_row_stack(in_array, np_array)

\* conversion.msg_to_array: the message's flat buffer in the message's shape
msg_to_array(value_ndarray) == Nd(value_ndarray.shape, value_ndarray.data)

parse_ndarray(value_ndarray, in_ndarray) ==
    LET np_array == msg_to_array(value_ndarray)
    IN  IF in_ndarray = None /\ Size(np_array) = 0 THEN None
        ELSE IF in_ndarray = None THEN np_newaxis(np_array)
        ELSE IF Size(np_array) = 0
             THEN np_concatenate0(in_ndarray,
                      np_newaxis(np_scale(SENTINEL, np_ones(Tail(in_ndarray.shape)))))
        ELSE np_concatenate0(in_ndarray, np_newaxis(np_array))

\* A lookup that never finds the prior entry.
DictGet_NoPrior(d, key) == None

\* dict.get(key, None)
DictGet(d, key) == IF key \in DOMAIN d.tbl THEN d.tbl[key] ELSE None

\* d[key] = val
DictSet(d, key, val) ==
    [kind |-> "dict",
     tbl |-> [k \in DOMAIN d.tbl \cup {key} |-> IF k = key THEN val ELSE d.tbl[k]]]

\* The loop of parse_message over the fields of msg from the i-th on, on the
\* dict d, which the loop changes in place.  The result is [tbl, exc]: the
\* dict as the loop left it, the exception that ended the loop ("none" when
\* it ran to its end), and the place of the field that raised it (the
\* indices of the fields down to it, <<>> when none did).  A value that is none of Header, Number,
\* array.array and NDArray is taken for a message: one with no
\* get_fields_and_field_types (kind "other") raises AttributeError.
RECURSIVE ParseFields(_, _, _)
ParseFields(msg, i, d) ==
    IF i > Len(msg) THEN [tbl |-> d, exc |-> "none", at |-> <<>>]
    ELSE
      LET f == msg[i]
          old_entry == DictGet(d, f.name)
      IN  CASE f.kind = "Header" ->
                 ParseFields(msg, i + 1,
                     DictSet(d, "stamp_s",
                             parse_time_stamp(f.val, DictGet(d, "stamp_s"))))
            [] f.kind = "Number" ->
                 ParseFields(msg, i + 1,
                     DictSet(d, f.name, parse_scalar(f.val, old_entry)))
            [] f.kind = "array" ->
                 LET val == parse_array(f.val, old_entry)
                 IN  IF val.kind = "raise"
                     THEN [tbl |-> d, exc |-> val.exc, at |-> <<i>>]
                     ELSE ParseFields(msg, i + 1, DictSet(d, f.name, val))
            [] f.kind = "NDArray" ->
                 LET val == parse_ndarray(f.val, old_entry)
                 IN  IF val.kind = "raise"
                     THEN [tbl |-> d, exc |-> val.exc, at |-> <<i>>]
                     ELSE ParseFields(msg, i + 1, DictSet(d, f.name, val))
            [] f.kind = "msg" ->
                 LET sub == ParseFields(f.val, 1,
                                IF old_entry = None THEN EmptyDict ELSE old_entry)
                 IN  IF sub.exc # "none"
                     THEN [tbl |-> IF old_entry = None THEN d
                                   ELSE DictSet(d, f.name, sub.tbl),
                           exc |-> sub.exc, at |-> <<i>> \o sub.at]
                     ELSE ParseFields(msg, i + 1, DictSet(d, f.name, sub.tbl))
            [] OTHER -> [tbl |-> d, exc |-> "AttributeError", at |-> <<i>>]

\* A parse_message that works on a copy of in_dict, which it gives up
\* when a field raises.
parse_message_Fresh(msg, in_dict) ==
    LET r == ParseFields(msg, 1, IF in_dict = None THEN EmptyDict ELSE in_dict)
    IN  IF r.exc = "none" THEN r
        ELSE [tbl |-> IF in_dict = None THEN EmptyDict ELSE in_dict,
              exc |-> r.exc, at |-> r.at]

parse_message(msg, in_dict) ==
    ParseFields(msg, 1, IF in_dict = None THEN EmptyDict ELSE in_dict)

(***************************************************************************)
(* The records of the container: two channels, each with its schema.       *)
(***************************************************************************)
Fld(name, kind, val) == [name |-> name, kind |-> kind, val |-> val]

Topics == {"/a", "/b", "/c"}

Secs == {10, 11}
ArrValues == {<<>>, <<5>>, <<5, 6>>}
InnerArrValues == {<<>>, <<7, 8>>}
NdValues == {[shape |-> <<0>>, data |-> <<>>],
             [shape |-> <<1, 2>>, data |-> <<1, 2>>],
             [shape |-> <<2>>, data |-> <<3, 4>>]}

MsgsOf(topic) ==
    IF topic = "/a"
    THEN {<<Fld("header", "Header", [sec |-> s, nanosec |-> 0]),
            Fld("speed", "Number", 1),
            Fld("arr", "array", a)>> : s \in Secs, a \in ArrValues}
    ELSE IF topic = "/b"
    THEN {<<Fld("nd", "NDArray", n),
            Fld("inner", "msg", <<Fld("x", "Number", 3),
                                  Fld("arr", "array", a)>>)>> :
              n \in NdValues, a \in InnerArrValues}
    ELSE {<<Fld("header", "Header", [sec |-> s, nanosec |-> 0]),
            Fld("label", "str", "x")>> : s \in Secs}

(***************************************************************************)
(* parse_topics                                                            *)
(***************************************************************************)
\* merge_dictionaries is not in use.
MergeIdle ==
    /\ dict_tuple = None
    /\ merge_arg0 = <<>>
    /\ merge_ret = None

\* The functions of dict_utils on one table are not in use.
PostIdle ==
    /\ post_data = None
    /\ post_op = "none"
    /\ post_ret = None

\* si_prefix_to_base_from_str is not in use.
UnitsIdle ==
    /\ si_name = ""
    /\ si_value = None
    /\ si_ret = None

\* There is no plotter.
PlotIdle ==
    /\ plot_xdata = <<>>
    /\ plot_ydata = <<>>
    /\ _lower_bound = 0
    /\ _upper_bound = 0
    /\ _highlight_plot = None

ParseInit ==
    /\ ros_data_dict = <<>>
    /\ hist = [t \in Topics |-> <<>>]
    /\ pc = "reading"
    /\ exc = "none"
    /\ nread = 0
    /\ last_read = None
    /\ in_dict_before = None
    /\ in_dict_after = None
    /\ raised_at = <<>>
    /\ MergeIdle
    /\ PostIdle
    /\ UnitsIdle
    /\ PlotIdle

\* ros_data_dict[topic] = tbl
TopicSet(rdd, topic, tbl) ==
    [t \in DOMAIN rdd \cup {topic} |-> IF t = topic THEN tbl ELSE rdd[t]]

\* One turn of the while loop: reader.read_next() gives a record of topic,
\* which parse_message adds to the topic's table.  parse_message changes the
\* dict it is given in place, so ros_data_dict[topic] keeps what was done
\* before an exception.  On the topic's first record ros_data_dict[topic]
\* raises KeyError, and the handler parses the record into a new dict; a
\* KeyError out of parse_message is handled the same way.  Any other
\* exception ends parse_topics.
ReadNext(topic, msg) ==
    /\ pc = "reading"
    /\ nread < MaxRecords
    /\ nread' = nread + 1
    /\ hist' = [hist EXCEPT ![topic] = Append(@, msg)]
    /\ LET known == topic \in DOMAIN ros_data_dict
           first == IF known THEN parse_message(msg, ros_data_dict[topic])
                    ELSE [tbl |-> None, exc |-> "KeyError", at |-> <<>>]
           afterTry == IF known THEN TopicSet(ros_data_dict, topic, first.tbl)
                       ELSE ros_data_dict
           second == parse_message(msg, EmptyDict)
       IN  /\ IF first.exc = "KeyError"
              THEN /\ ros_data_dict' = IF second.exc = "none"
                                       THEN TopicSet(afterTry, topic, second.tbl)
                                       ELSE afterTry
                   /\ exc' = second.exc
              ELSE /\ ros_data_dict' = afterTry
                   /\ exc' = first.exc
           /\ in_dict_before' = IF known THEN ros_data_dict[topic] ELSE EmptyDict
           /\ in_dict_after' = IF first.exc = "KeyError" THEN second.tbl
                                ELSE first.tbl
           /\ raised_at' = IF first.exc = "KeyError" THEN second.at ELSE first.at
    /\ pc' = IF exc' = "none" THEN "reading" ELSE "raised"
    /\ last_read' = [kind |-> "record", topic |-> topic, decoded |-> TRUE]
    /\ UNCHANGED <<mergeVars, postVars, unitsVars, plotVars>>

\* One turn of the while loop on a record whose data deserialize_message
\* cannot decode: it raises, outside the try, and parse_topics ends.
DecodeFails(topic) ==
    /\ pc = "reading"
    /\ nread < MaxRecords
    /\ nread' = nread + 1
    /\ exc' = "DeserializeError"
    /\ pc' = "raised"
    /\ last_read' = [kind |-> "record", topic |-> topic, decoded |-> FALSE]
    /\ UNCHANGED <<ros_data_dict, hist, in_dict_before, in_dict_after, raised_at>>
    /\ UNCHANGED <<mergeVars, postVars, unitsVars, plotVars>>

\* reader.has_next() is false: parse_topics returns ros_data_dict
Return ==
    /\ pc = "reading"
    /\ pc' = "returned"
    /\ UNCHANGED <<ros_data_dict, hist, exc, nread>>
    /\ UNCHANGED <<last_read, in_dict_before, in_dict_after, raised_at>>
    /\ UNCHANGED <<mergeVars, postVars, unitsVars, plotVars>>

ParseNext ==
    \/ \E topic \in Topics : \E msg \in MsgsOf(topic) : ReadNext(topic, msg)
    \/ \E topic \in Topics : DecodeFails(topic)
    \/ Return

SpecParse == ParseInit /\ [][ParseNext]_vars

(***************************************************************************)
(* What the claims about the reader speak of.                              *)
(***************************************************************************)
\* The key parse_message files a field under.
KeyOf(f) == IF f.kind = "Header" THEN "stamp_s" ELSE f.name

\* The paths (sequences of keys) of the leaves of a record.
RECURSIVE MsgLeafPaths(_)
MsgLeafPaths(msg) ==
    UNION {IF msg[i].kind = "msg"
           THEN {<<msg[i].name>> \o p : p \in MsgLeafPaths(msg[i].val)}
           ELSE {<<KeyOf(msg[i])>>} : i \in 1..Len(msg)}

\* The leaf field of a record at a path.
RECURSIVE MsgLeaf(_, _)
MsgLeaf(msg, path) ==
    LET f == msg[CHOOSE i \in 1..Len(msg) : KeyOf(msg[i]) = path[1]]
    IN  IF Len(path) = 1 THEN f ELSE MsgLeaf(f.val, Tail(path))

\* The entry of a table at a path, None when there is none.
RECURSIVE TableAt(_, _)
TableAt(d, path) ==
    IF d.kind # "dict" \/ path[1] \notin DOMAIN d.tbl THEN None
    ELSE IF Len(path) = 1 THEN d.tbl[path[1]]
    ELSE TableAt(d.tbl[path[1]], Tail(path))

\* What a record holds for a leaf, as an array: a scalar is 0-dimensional.
LeafData(f) ==
    CASE f.kind = "Header" ->
           Nd(<<>>, <<f.val.sec * MsPerSec + (f.val.nanosec \div NsPerMs)>>)
      [] f.kind = "Number" -> Nd(<<>>, <<f.val>>)
      [] f.kind = "array" -> Nd(<<Len(f.val)>>, f.val)
      [] f.kind = "NDArray" -> Nd(f.val.shape, f.val.data)

NonEmpty(f) == Prod(LeafData(f).shape) > 0

\* The index in h of the leaf's first non-empty occurrence, 0 when none.
FirstOcc(h, path) ==
    IF \E i \in 1..Len(h) : NonEmpty(MsgLeaf(h[i], path))
    THEN CHOOSE i \in 1..Len(h) :
            /\ NonEmpty(MsgLeaf(h[i], path))
            /\ \A j \in 1..(i - 1) : ~NonEmpty(MsgLeaf(h[j], path))
    ELSE 0

\* The i-th slice of an array along its leading axis.
Slice(a, i) ==
    LET n == Prod(Tail(a.shape))
    IN  Nd(Tail(a.shape), SubSeq(a.data, (i - 1) * n + 1, i * n))

\* A slice of the given shape filled with the sentinel value.
SentinelSlice(shape) == Nd(shape, [i \in 1..Prod(shape) |-> SENTINEL])

\* The records of a channel are well-formed: a leaf has the same shape at
\* each of its non-empty occurrences, and every field is of a known kind.
RECURSIVE KnownKinds(_)
KnownKinds(msg) ==
    \A i \in 1..Len(msg) :
        \/ msg[i].kind \in {"Header", "Number", "array", "NDArray"}
        \/ msg[i].kind = "msg" /\ KnownKinds(msg[i].val)

WellFormed(h) ==
    /\ \A i \in 1..Len(h) : KnownKinds(h[i])
    /\ \A i, j \in 1..Len(h) : \A p \in MsgLeafPaths(h[i]) :
           (NonEmpty(MsgLeaf(h[i], p)) /\ NonEmpty(MsgLeaf(h[j], p)))
               => LeafData(MsgLeaf(h[i], p)).shape = LeafData(MsgLeaf(h[j], p)).shape

AllWellFormed == \A t \in Topics : WellFormed(hist[t])

\* The channels that have a table, with a record to compare it to.
Channels == {t \in DOMAIN ros_data_dict : hist[t] # <<>>}

\* The leaves present in the table of channel t.
PresentLeaves(t) ==
    {p \in MsgLeafPaths(hist[t][1]) : TableAt(ros_data_dict[t], p).kind = "nd"}

\* C1: after any sequence of well-formed records, the leading-axis length of
\* every leaf present in a channel's table is the number of records read on
\* the channel since the leaf's first non-empty occurrence, that one
\* included (so 1 right after it).
C1_LeadingAxisCountsRecords ==
    (exc = "none" /\ AllWellFormed) =>
        \A t \in Channels : \A p \in PresentLeaves(t) :
            LET a == TableAt(ros_data_dict[t], p)
                first == FirstOcc(hist[t], p)
            IN  /\ first > 0
                /\ Len(a.shape) >= 1
                /\ a.shape[1] = Len(hist[t]) - first + 1

\* C2: index i of every leaf array of a channel's table holds what the i-th
\* record read on the channel contributed: its data, or a sentinel slice
\* when it was empty.
C2_IndexIsRecordIndex ==
    (exc = "none" /\ AllWellFormed) =>
        \A t \in Channels : \A p \in PresentLeaves(t) :
            LET a == TableAt(ros_data_dict[t], p)
            IN  /\ Len(a.shape) >= 1
                /\ a.shape[1] = Len(hist[t])
                /\ \A i \in 1..Len(hist[t]) :
                      LET f == MsgLeaf(hist[t][i], p)
                      IN  Slice(a, i) = IF NonEmpty(f) THEN LeafData(f)
                                        ELSE SentinelSlice(Tail(a.shape))

\* The array or tensor leaf at p is non-empty on record k of h, empty on
\* record k+1, and on record k+2, when h has one, non-empty again.
GapAt(h, p, k) ==
    /\ k + 1 <= Len(h)
    /\ MsgLeaf(h[k], p).kind \in {"array", "NDArray"}
    /\ NonEmpty(MsgLeaf(h[k], p))
    /\ ~NonEmpty(MsgLeaf(h[k + 1], p))
    /\ k + 2 <= Len(h) => NonEmpty(MsgLeaf(h[k + 2], p))

\* C3: a leaf that is non-empty, empty, non-empty on three records in a row
\* is accumulated without an error, into three slices: the records' data
\* around a slice of the first one's shape filled with the sentinel value.
C3_SentinelFill ==
    AllWellFormed =>
        /\ (\E t \in Topics : hist[t] # <<>> /\
               \E p \in MsgLeafPaths(hist[t][1]) : \E k \in 1..Len(hist[t]) :
                   GapAt(hist[t], p, k)) => exc = "none"
        /\ \A t \in Channels : \A p \in MsgLeafPaths(hist[t][1]) :
             \A k \in 1..Len(hist[t]) :
               (GapAt(hist[t], p, k) /\ k + 2 <= Len(hist[t])) =>
                   LET h == hist[t]
                       a == TableAt(ros_data_dict[t], p)
                       at == k - FirstOcc(h, p) + 1
                       first == LeafData(MsgLeaf(h[k], p))
                   IN  /\ a.kind = "nd"
                       /\ a.shape = <<Len(h) - FirstOcc(h, p) + 1>> \o first.shape
                       /\ Slice(a, at) = first
                       /\ Slice(a, at + 1) = SentinelSlice(first.shape)
                       /\ Slice(a, at + 2) = LeafData(MsgLeaf(h[k + 2], p))

\* The part of C3 that the tensor leaves (parse_ndarray) do satisfy.
C3_TensorSentinelFill ==
    (exc = "none") =>
        \A t \in Channels : \A p \in MsgLeafPaths(hist[t][1]) :
          \A k \in 1..Len(hist[t]) :
            (/\ GapAt(hist[t], p, k) /\ k + 2 <= Len(hist[t])
             /\ MsgLeaf(hist[t][k], p).kind = "NDArray") =>
                LET h == hist[t]
                    a == TableAt(ros_data_dict[t], p)
                    at == k - FirstOcc(h, p) + 1
                    first == LeafData(MsgLeaf(h[k], p))
                IN  /\ Slice(a, at) = first
                    /\ Slice(a, at + 1) = SentinelSlice(first.shape)
                    /\ Slice(a, at + 2) = LeafData(MsgLeaf(h[k + 2], p))

\* The table d has exactly the keys of the fields of the record msg, a table
\* of the same kind under the name of each nested record, and an array (or
\* None, for a leaf not seen non-empty yet) under each leaf.
RECURSIVE Mirrors(_, _)
Mirrors(d, msg) ==
    /\ d.kind = "dict"
    /\ DOMAIN d.tbl = {KeyOf(msg[i]) : i \in 1..Len(msg)}
    /\ \A i \in 1..Len(msg) :
          IF msg[i].kind = "msg"
          THEN Mirrors(d.tbl[msg[i].name], msg[i].val)
          ELSE d.tbl[KeyOf(msg[i])].kind \in {"nd", "none"}

\* The composed key "<field>/<subpath>" of a path.
RECURSIVE ComposedKey(_)
ComposedKey(path) ==
    IF Len(path) = 1 THEN path[1]
    ELSE path[1] \o "/" \o ComposedKey(Tail(path))

\* C4 (as amended): the table parse_message returns is nested like the
\* record: its keys are the record's own field names (stamp_s for a
\* header), a nested record's leaves are in the table held under that
\* field's name, which is the prior table's entry of that name carried on
\* (a scalar leaf of a nested record has one element per record), and no
\* key is a composed "<field>/<subpath>".
C4_NestedTable ==
    (exc = "none") =>
        \A t \in Channels :
            LET last == hist[t][Len(hist[t])]
            IN  /\ Mirrors(ros_data_dict[t], last)
                /\ \A p \in MsgLeafPaths(last) :
                      /\ Len(p) > 1 => ComposedKey(p) \notin DOMAIN ros_data_dict[t].tbl
                      /\ MsgLeaf(last, p).kind = "Number" =>
                            TableAt(ros_data_dict[t], p).shape = <<Len(hist[t])>>

\* C4 (as claimed): the table is flat, every leaf of a nested record filed
\* under the composed key "<field>/<subpath>" and no table inside the table.
C4_FlatTable ==
    (exc = "none") =>
        \A t \in Channels :
            /\ \A k \in DOMAIN ros_data_dict[t].tbl :
                  ros_data_dict[t].tbl[k].kind # "dict"
            /\ \A p \in MsgLeafPaths(hist[t][Len(hist[t])]) :
                  Len(p) > 1 => ComposedKey(p) \in DOMAIN ros_data_dict[t].tbl

\* A record with a nested record has been added to a table that had one.
C4_Witness ==
    /\ exc = "none"
    /\ "/b" \in DOMAIN ros_data_dict
    /\ Len(hist["/b"]) >= 2
    /\ TableAt(ros_data_dict["/b"], <<"inner", "x">>).kind = "nd"

\* The record read last is one the read cannot take: its data did not
\* decode, it holds a field of an unsupported kind, or the shape of one of
\* its leaves differs from the leaf's shape on an earlier record.
LastRecordBad ==
    /\ last_read.kind = "record"
    /\ \/ ~last_read.decoded
       \/ ~WellFormed(hist[last_read.topic])

\* C12: parse_topics either consumes every record and returns the complete
\* mapping from channel name to table, or terminates with an error at the
\* first record whose decoding fails or that holds a field of an unsupported
\* kind: it has returned only with no error and a table for every channel
\* read, it has raised only on such a record, and no such record is behind
\* a read that goes on or has returned.
C12_CompleteOrFirstBadRecord ==
    /\ pc = "returned" =>
          /\ exc = "none"
          /\ \A t \in Topics : hist[t] # <<>> => t \in DOMAIN ros_data_dict
    /\ pc = "raised" => LastRecordBad
    /\ pc # "raised" => ~LastRecordBad /\ AllWellFormed

\* The part of C12 that does hold: a record that does not decode, holds a
\* field of an unsupported kind or changes a leaf's shape ends the read
\* with an error there; the read never goes on past it, nor returns.
C12_BadRecordAborts ==
    /\ pc = "returned" =>
          /\ exc = "none"
          /\ \A t \in Topics : hist[t] # <<>> => t \in DOMAIN ros_data_dict
    /\ pc = "raised" => exc # "none"
    /\ pc # "raised" => ~LastRecordBad /\ AllWellFormed

\* The record of the last parse_message call.
LastRecord == hist[last_read.topic][Len(hist[last_read.topic])]

\* C13 (as claimed): parse_message never mutates the prior table passed to
\* it: after a call on a channel's table, whether it returned or failed
\* partway, the table (the tables of its nested records included) has
\* exactly the keys and values it had before the call.
C13_PriorUnchanged ==
    (/\ last_read.kind = "record" /\ last_read.decoded
     /\ in_dict_before # EmptyDict) =>
        in_dict_after = in_dict_before

\* The fields of msg ahead of the place at (all of them when at is <<>>)
\* are written into the table: a scalar leaf has one element more in after
\* than in before, an array leaf has an entry, a nested record is written
\* into the nested table; the field at the place and those behind it are in
\* after as in before, but that a nested record holding the place is
\* written, up to the place, into the nested table it had before.
RECURSIVE WrittenUpTo(_, _, _, _)
WrittenUpTo(msg, at, before, after) ==
    \A i \in 1..Len(msg) :
        LET f == msg[i]
            k == KeyOf(f)
            had == k \in DOMAIN before.tbl
        IN  IF at = <<>> \/ i < at[1]
            THEN /\ k \in DOMAIN after.tbl
                 /\ f.kind \in {"Header", "Number"} =>
                        after.tbl[k].shape =
                            <<1 + (IF had THEN before.tbl[k].shape[1] ELSE 0)>>
                 /\ f.kind = "msg" =>
                        WrittenUpTo(f.val, <<>>,
                                    IF had THEN before.tbl[k] ELSE EmptyDict,
                                    after.tbl[k])
            ELSE IF i = at[1] /\ Len(at) > 1 /\ had
            THEN /\ k \in DOMAIN after.tbl
                 /\ WrittenUpTo(f.val, Tail(at), before.tbl[k], after.tbl[k])
            ELSE /\ k \in DOMAIN after.tbl <=> had
                 /\ DictGet(after, k) = DictGet(before, k)

\* C13 (as amended): parse_message changes the prior table in place and
\* returns that table: after the call the prior table keeps the keys it
\* had, it is the table the caller holds for the channel, and the leaves of
\* the record are written into it, all of them when the call returned and
\* those ahead of the leaf that raised when it failed partway (a nested
\* record's into the nested table), the others being as before.
C13_PriorUpdatedInPlace ==
    (last_read.kind = "record" /\ last_read.decoded) =>
        /\ DOMAIN in_dict_before.tbl \subseteq DOMAIN in_dict_after.tbl
        /\ last_read.topic \in DOMAIN ros_data_dict =>
               ros_data_dict[last_read.topic] = in_dict_after
        /\ (exc = "none") <=> (raised_at = <<>>)
        /\ WrittenUpTo(LastRecord, raised_at, in_dict_before, in_dict_after)

\* A call on a channel's table has failed partway, inside a nested record,
\* and left the table changed.
C13_Witness ==
    /\ last_read.kind = "record" /\ last_read.decoded
    /\ exc # "none"
    /\ Len(raised_at) > 1
    /\ in_dict_before # EmptyDict
    /\ in_dict_after # in_dict_before
    /\ ros_data_dict[last_read.topic] = in_dict_after

(***************************************************************************)
(* dict_utils.py.  A table is a Python dict, which keeps its keys in the   *)
(* order they were added: [kind |-> "odict", items |-> the sequence of     *)
(* its entries [k, v]], no key twice.  The values are arrays of numbers    *)
(* [m, e, p], the number m * 10^e * pi^p with m no multiple of 10, so that *)
(* a power of ten and 180/pi multiply exactly.                             *)
(***************************************************************************)
OD(items) == [kind |-> "odict", items |-> items]

Entry(k, v) == [k |-> k, v |-> v]

\* d.keys()
OKeys(d) == {d.items[i].k : i \in 1..Len(d.items)}

\* d[key], for a key of d
OGet(d, key) == d.items[CHOOSE i \in 1..Len(d.items) : d.items[i].k = key].v

\* d[key] = val: a known key keeps its place, a new one goes last
OSet(d, key, val) ==
    IF key \in OKeys(d)
    THEN OD([i \in 1..Len(d.items) |->
                IF d.items[i].k = key THEN Entry(key, val) ELSE d.items[i]])
    ELSE OD(Append(d.items, Entry(key, val)))

\* a.update(b), from the i-th entry of b on
RECURSIVE OUpdate(_, _, _)
OUpdate(a, b, i) ==
    IF i > Len(b.items) THEN a
    ELSE OUpdate(OSet(a, b.items[i].k, b.items[i].v), b, i + 1)

\* An overlay in which the left table wins.
OOr_LeftWins(a, b) == OUpdate(b, a, 1)

\* a | b
OOr(a, b) == OUpdate(a, b, 1)

Num(m) == [m |-> m, e |-> 0, p |-> 0]

RECURSIVE NumNorm(_)
NumNorm(x) ==
    IF x.m = 0 THEN Num(0)
    ELSE IF x.m % 10 = 0 THEN NumNorm([x EXCEPT !.m = @ \div 10, !.e = @ + 1])
    ELSE x

RECURSIVE SumSeq(_)
SumSeq(s) == IF s = <<>> THEN 0 ELSE Head(s) + SumSeq(Tail(s))

\* What iterating over dict_tuple yields: a list or tuple yields its tables
\* each time, an iterator (a generator) only the first time.
IterItems(it, nth) == IF it.oneShot /\ nth > 1 THEN <<>> ELSE it.items

\* The test of merge_dictionaries with the sizes compared the wrong way.
KeysOverlap_Less(set_list) ==
    Cardinality(UNION {set_list[i] : i \in 1..Len(set_list)})
        > SumSeq([i \in 1..Len(set_list) |-> Cardinality(set_list[i])])

\* not len(set.union(*set_list)) == sum(set_lengths)
KeysOverlap(set_list) ==
    Cardinality(UNION {set_list[i] : i \in 1..Len(set_list)})
        # SumSeq([i \in 1..Len(set_list) |-> Cardinality(set_list[i])])

\* out_dict |= elem, for the elements from the i-th on
RECURSIVE MergeLoop(_, _, _)
MergeLoop(elems, i, out_dict) ==
    IF i > Len(elems) THEN out_dict
    ELSE MergeLoop(elems, i + 1, OUpdate(out_dict, elems[i], 1))

\* merge_dictionaries(it): [ret, items], what the call returns or raises and
\* the tables of the argument after it (the call writes to out_dict alone).
\* set.union(*[]) raises TypeError.
merge_dictionaries(it) ==
    LET first == IterItems(it, 1)
        set_list == [i \in 1..Len(first) |-> OKeys(first[i])]
    IN  [items |-> it.items,
         ret |-> IF Len(set_list) = 0 THEN Raise("TypeError")
                 ELSE IF KeysOverlap(set_list) THEN Raise("SharedKeyError")
                 ELSE MergeLoop(IterItems(it, 2), 1, OD(<<>>))]

\* The tables merge_dictionaries is called on.
MergeKeys == <<"a", "b", "c">>
MergeValues(k) == IF k = "a" THEN {Nd(<<1>>, <<Num(1)>>), Nd(<<1>>, <<Num(2)>>)}
                  ELSE {Nd(<<1>>, <<Num(3)>>)}

RECURSIVE TablesOver(_)
TablesOver(keys) ==
    IF keys = <<>> THEN {OD(<<>>)}
    ELSE LET rest == TablesOver(Tail(keys))
         IN  rest \cup {OD(<<Entry(Head(keys), v)>> \o t.items) :
                           v \in MergeValues(Head(keys)), t \in rest}

MergeTables == TablesOver(MergeKeys)

RECURSIVE SeqsUpTo(_, _)
SeqsUpTo(S, n) ==
    IF n = 0 THEN {<<>>}
    ELSE LET shorter == SeqsUpTo(S, n - 1)
         IN  shorter \cup {Append(q, x) : q \in {r \in shorter : Len(r) = n - 1}, x \in S}

\* The reader is not in use.
ParseIdle ==
    /\ ros_data_dict = <<>>
    /\ hist = <<>>
    /\ pc = "idle"
    /\ exc = "none"
    /\ nread = 0
    /\ last_read = None
    /\ in_dict_before = None
    /\ in_dict_after = None
    /\ raised_at = <<>>

MergeInit ==
    /\ \E items \in SeqsUpTo(MergeTables, MaxTables) : \E oneShot \in BOOLEAN :
          /\ dict_tuple = [items |-> items, oneShot |-> oneShot]
          /\ merge_arg0 = items
    /\ merge_ret = None
    /\ ParseIdle
    /\ PostIdle
    /\ UnitsIdle
    /\ PlotIdle

MergeCall ==
    /\ merge_ret = None
    /\ LET r == merge_dictionaries(dict_tuple)
       IN  /\ merge_ret' = r.ret
           /\ dict_tuple' = [dict_tuple EXCEPT !.items = r.items]
    /\ UNCHANGED merge_arg0
    /\ UNCHANGED <<parseVars, postVars, unitsVars, plotVars>>

MergeNext == MergeCall

SpecMerge == MergeInit /\ [][MergeNext]_vars

\* Two of the tables share a key.
SharesKey(items) ==
    \E i, j \in 1..Len(items) : i # j /\ OKeys(items[i]) \cap OKeys(items[j]) # {}

\* C5: merge_dictionaries, called on N >= 1 tables, raises SharedKeyError
\* exactly when two of the tables share a key; it then returns no table, and
\* the tables it was given are as they were.
C5_RaisesIffSharedKey ==
    (merge_ret # None /\ Len(merge_arg0) >= 1) =>
        /\ (merge_ret = Raise("SharedKeyError")) <=> SharesKey(merge_arg0)
        /\ SharesKey(merge_arg0) => merge_ret.kind # "odict"
        /\ dict_tuple.items = merge_arg0

\* merge_dictionaries has raised SharedKeyError on three tables of which only
\* the first and the last share a key.
C5_Witness ==
    /\ merge_ret = Raise("SharedKeyError")
    /\ Len(merge_arg0) = 3
    /\ OKeys(merge_arg0[1]) \cap OKeys(merge_arg0[2]) = {}
    /\ OKeys(merge_arg0[2]) \cap OKeys(merge_arg0[3]) = {}

\* C6: for every iterable of tables no two of which share a key,
\* merge_dictionaries returns a table whose keys are the union of the
\* tables' keys, each with the value it has in its table.
C6_MergeIsUnion ==
    (merge_ret # None /\ Len(merge_arg0) >= 1 /\ ~SharesKey(merge_arg0)) =>
        /\ merge_ret.kind = "odict"
        /\ OKeys(merge_ret) = UNION {OKeys(merge_arg0[i]) : i \in 1..Len(merge_arg0)}
        /\ \A i \in 1..Len(merge_arg0) : \A k \in OKeys(merge_arg0[i]) :
              OGet(merge_ret, k) = OGet(merge_arg0[i], k)

\* C6 for an argument that can be iterated more than once (a list, a tuple).
C6_MergeIsUnionOfList ==
    (/\ merge_ret # None /\ Len(merge_arg0) >= 1 /\ ~SharesKey(merge_arg0)
     /\ ~dict_tuple.oneShot) =>
        /\ merge_ret.kind = "odict"
        /\ OKeys(merge_ret) = UNION {OKeys(merge_arg0[i]) : i \in 1..Len(merge_arg0)}
        /\ \A i \in 1..Len(merge_arg0) : \A k \in OKeys(merge_arg0[i]) :
              OGet(merge_ret, k) = OGet(merge_arg0[i], k)

(***************************************************************************)
(* str                                                                     *)
(***************************************************************************)
\* The places where sub occurs in s.
Occurrences(s, sub) ==
    {i \in 1..(Len(s) - Len(sub) + 1) : SubSeq(s, i, i + Len(sub) - 1) = sub}

\* sub in s
StrContains(s, sub) == Occurrences(s, sub) # {}

\* s.replace(old, new), old not empty: the occurrences of old found from the
\* left, each search starting after the occurrence before
RECURSIVE StrReplace(_, _, _)
StrReplace(s, old, new) ==
    IF Len(s) < Len(old) THEN s
    ELSE IF SubSeq(s, 1, Len(old)) = old
         THEN new \o StrReplace(SubSeq(s, Len(old) + 1, Len(s)), old, new)
    ELSE SubSeq(s, 1, 1) \o StrReplace(SubSeq(s, 2, Len(s)), old, new)

\* s.rsplit(sep=sep), no maxsplit: s is cut at every separator, found from
\* the right
RECURSIVE StrRSplit(_, _)
StrRSplit(s, sep) ==
    LET occ == Occurrences(s, sep)
    IN  IF occ = {} THEN <<s>>
        ELSE LET i == CHOOSE x \in occ : \A y \in occ : y <= x
             IN  StrRSplit(SubSeq(s, 1, i - 1), sep)
                     \o <<SubSeq(s, i + Len(sep), Len(s))>>

UpperCase == "ABCDEFGHIJKLMNOPQRSTUVWXYZ"
LowerCase == "abcdefghijklmnopqrstuvwxyz"

\* s.lower()
RECURSIVE StrLower(_)
StrLower(s) ==
    IF s = "" THEN ""
    ELSE LET c == SubSeq(s, 1, 1)
             at == Occurrences(UpperCase, c)
         IN  (IF at = {} THEN c
              ELSE LET i == CHOOSE x \in at : TRUE IN SubSeq(LowerCase, i, i))
                 \o StrLower(SubSeq(s, 2, Len(s)))

(***************************************************************************)
(* units.py                                                                *)
(***************************************************************************)
\* The members of SI_PREFIX in their order; value is the power of ten.
SI_PREFIX ==
    <<[name |-> "GIGA", value |-> 9], [name |-> "MEGA", value |-> 6],
      [name |-> "KILO", value |-> 3], [name |-> "HECTO", value |-> 2],
      [name |-> "DEKA", value |-> 1], [name |-> "DECI", value |-> -1],
      [name |-> "CENTI", value |-> -2], [name |-> "MILI", value |-> -3],
      [name |-> "MICRO", value |-> -6], [name |-> "NANO", value |-> -9]>>

\* x * 10^k
NumMulPow10(x, k) == IF x.m = 0 THEN x ELSE [x EXCEPT !.e = @ + k]

\* ndarray * 10^k
np_mul_pow10(a, k) == Nd(a.shape, [i \in 1..Len(a.data) |-> NumMulPow10(a.data[i], k)])

\* A scan that stops at the first member found in the name.
RECURSIVE SiScan_FirstMatch(_, _, _)
SiScan_FirstMatch(nm, i, st) ==
    IF i > Len(SI_PREFIX) THEN st
    ELSE IF ~StrContains(nm, StrLower(SI_PREFIX[i].name))
         THEN SiScan_FirstMatch(nm, i + 1, st)
    ELSE [found |-> TRUE, prefix |-> StrLower(SI_PREFIX[i].name),
          multiplier |-> SI_PREFIX[i].value]

\* The loop of si_prefix_to_base_from_str from the i-th member on; st is
\* [found, prefix, multiplier], found being "prefix is not None" and
\* multiplier the power of ten (1.0 is 10^0).
RECURSIVE SiScan(_, _, _)
SiScan(nm, i, st) ==
    IF i > Len(SI_PREFIX) THEN st
    ELSE IF ~StrContains(nm, StrLower(SI_PREFIX[i].name))
         THEN SiScan(nm, i + 1, st)
    ELSE SiScan(nm, i + 1,
                [found |-> TRUE, prefix |-> StrLower(SI_PREFIX[i].name),
                 multiplier |-> SI_PREFIX[i].value])

\* si_prefix_to_base_from_str(name, value): the pair (value, name)
si_prefix_to_base_from_str(nm, val) ==
    LET st == SiScan(nm, 1, [found |-> FALSE, prefix |-> "", multiplier |-> 0])
    IN  IF ~st.found THEN [value |-> val, name |-> nm]
        ELSE [value |-> np_mul_pow10(val, st.multiplier),
              name |-> StrReplace(nm, st.prefix, "")]

\* The names and values si_prefix_to_base_from_str is called on: the names
\* are made of at most MaxPieces pieces.
Pieces == {"kilo", "mili", "nano", "n", "ano", "v"}

RECURSIVE NamesUpTo(_)
NamesUpTo(n) ==
    IF n = 0 THEN {""}
    ELSE LET shorter == NamesUpTo(n - 1)
         IN  shorter \cup {q \o x : q \in shorter, x \in Pieces}

UnitValues == {Nd(<<>>, <<Num(3)>>), Nd(<<2>>, <<Num(1), Num(0)>>)}

UnitsInit ==
    /\ si_name \in NamesUpTo(MaxPieces)
    /\ si_value \in UnitValues
    /\ si_ret = None
    /\ ParseIdle
    /\ MergeIdle
    /\ PostIdle
    /\ PlotIdle

UnitsCall ==
    /\ si_ret = None
    /\ si_ret' = [kind |-> "pair"] @@ si_prefix_to_base_from_str(si_name, si_value)
    /\ UNCHANGED <<si_name, si_value>>
    /\ UNCHANGED <<parseVars, mergeVars, postVars, plotVars>>

UnitsNext == UnitsCall

SpecUnits == UnitsInit /\ [][UnitsNext]_vars

\* The tokens of the conversion, in the order of the enumeration.
Tokens == <<"giga", "mega", "kilo", "hecto", "deka", "deci", "centi", "mili",
            "micro", "nano">>

\* The last token, in the order of the enumeration, that the name contains;
\* 0 when it contains none.
LastToken(nm) ==
    IF \E i \in 1..Len(Tokens) : StrContains(nm, Tokens[i])
    THEN CHOOSE i \in 1..Len(Tokens) :
            /\ StrContains(nm, Tokens[i])
            /\ \A j \in (i + 1)..Len(Tokens) : ~StrContains(nm, Tokens[j])
    ELSE 0

\* The values of b are the values of a times 10^k.
ScaledBy(a, b, k) ==
    /\ b.shape = a.shape
    /\ Len(b.data) = Len(a.data)
    /\ \A i \in 1..Len(a.data) :
          IF a.data[i].m = 0 THEN b.data[i] = a.data[i]
          ELSE /\ b.data[i].m = a.data[i].m
               /\ b.data[i].p = a.data[i].p
               /\ b.data[i].e = a.data[i].e + k

\* s without the first occurrence of tok.
RemoveFirst(s, tok) ==
    LET occ == Occurrences(s, tok)
        i == CHOOSE x \in occ : \A y \in occ : x <= y
    IN  SubSeq(s, 1, i - 1) \o SubSeq(s, i + Len(tok), Len(s))

\* s without the characters of any occurrence of tok in s, from place i on.
RECURSIVE RemoveCovered(_, _, _)
RemoveCovered(s, tok, i) ==
    IF i > Len(s) THEN ""
    ELSE (IF \E j \in Occurrences(s, tok) : j <= i /\ i < j + Len(tok)
          THEN "" ELSE SubSeq(s, i, i))
             \o RemoveCovered(s, tok, i + 1)

\* C9 (as claimed): the last token of the enumeration that the name contains
\* is applied: every value is multiplied by its factor, and the name loses
\* the first occurrence of the token only; with no token in the name, value
\* and name come back as they were.
C9_FirstOccurrenceRemoved ==
    (si_ret # None) =>
        LET t == LastToken(si_name)
        IN  IF t = 0 THEN si_ret.value = si_value /\ si_ret.name = si_name
            ELSE /\ ScaledBy(si_value, si_ret.value, SI_PREFIX[t].value)
                 /\ si_ret.name = RemoveFirst(si_name, Tokens[t])

\* C9 (as amended): as claimed, but the name loses every occurrence of the
\* token (no two occurrences of a token overlap); an occurrence that the
\* removal itself forms stays.
C9_AllOccurrencesRemoved ==
    (si_ret # None) =>
        LET t == LastToken(si_name)
        IN  IF t = 0 THEN si_ret.value = si_value /\ si_ret.name = si_name
            ELSE /\ ScaledBy(si_value, si_ret.value, SI_PREFIX[t].value)
                 /\ si_ret.name = RemoveCovered(si_name, Tokens[t], 1)

\* The function has been called on a name with two tokens, the one applied
\* occurring twice.
C9_Witness ==
    /\ si_ret # None
    /\ LastToken(si_name) # 0
    /\ Cardinality(Occurrences(si_name, Tokens[LastToken(si_name)])) = 2
    /\ \E i \in 1..Len(Tokens) :
          i # LastToken(si_name) /\ StrContains(si_name, Tokens[i])

(***************************************************************************)
(* dict_utils.py: the functions on one table.                              *)
(***************************************************************************)
_RAD_STR == "_rad"
_DEG_STR == "_deg"

\* val[:, 0].reshape((-1, 1)): an array of fewer than two dimensions, or
\* with an empty second axis, raises IndexError
first_column(val) ==
    IF Len(val.shape) < 2 THEN Raise("IndexError")
    ELSE IF val.shape[2] = 0 THEN Raise("IndexError")
    ELSE LET r == val.shape[1]
             c == val.shape[2]
             w == Prod(SubSeq(val.shape, 3, Len(val.shape)))
         IN  Nd(<<r * w, 1>>,
                [j \in 1..(r * w) |->
                    val.data[((j - 1) \div w) * c * w + ((j - 1) % w) + 1]])

\* The loop of add_first_timestamps from the i-th entry of the table on,
\* and its return; unpacking elems into (base, idx) raises ValueError when
\* there are not two of them.
RECURSIVE AddFirstLoop(_, _, _)
AddFirstLoop(tbl, i, out_dict) ==
    IF i > Len(tbl.items) THEN OOr(out_dict, tbl)
    ELSE LET key == tbl.items[i].k
             val == tbl.items[i].v
             elems == StrRSplit(key, "__")
             col == first_column(val)
         IN  IF Len(elems) = 1
             THEN IF col.kind = "raise" THEN col
                  ELSE AddFirstLoop(tbl, i + 1, OSet(out_dict, key \o "0", col))
             ELSE IF Len(elems) # 2 THEN Raise("ValueError")
             ELSE IF col.kind = "raise" THEN col
             ELSE AddFirstLoop(tbl, i + 1,
                      OSet(out_dict, elems[1] \o "0__" \o elems[2], col))

add_first_timestamps(tbl) == AddFirstLoop(tbl, 1, OD(<<>>))

RECURSIVE AddSiLoop(_, _, _)
AddSiLoop(tbl, i, out_dict) ==
    IF i > Len(tbl.items) THEN OOr(out_dict, tbl)
    ELSE LET r == si_prefix_to_base_from_str(tbl.items[i].k, tbl.items[i].v)
         IN  AddSiLoop(tbl, i + 1, OSet(out_dict, r.name, r.value))

add_si_base_keys_to_dict(tbl) == AddSiLoop(tbl, 1, OD(<<>>))

\* x * 180 / pi
NumDegrees(x) == NumNorm([m |-> x.m * 180, e |-> x.e, p |-> x.p - 1])

\* np.degrees(val)
np_degrees(val) == Nd(val.shape, [i \in 1..Len(val.data) |-> NumDegrees(val.data[i])])

RECURSIVE AddDegLoop(_, _, _)
AddDegLoop(tbl, i, out_dict) ==
    IF i > Len(tbl.items) THEN OOr(out_dict, tbl)
    ELSE IF StrContains(tbl.items[i].k, _RAD_STR)
         THEN AddDegLoop(tbl, i + 1,
                  OSet(out_dict, StrReplace(tbl.items[i].k, _RAD_STR, _DEG_STR),
                       np_degrees(tbl.items[i].v)))
    ELSE AddDegLoop(tbl, i + 1, out_dict)

add_deg_keys_from_rad(tbl) == AddDegLoop(tbl, 1, OD(<<>>))

\* preprocess_data(data_tuple): the list new_data.  new_elem is assigned the
\* result of add_si_base_keys_to_dict(elem) and then that of
\* add_deg_keys_from_rad(elem).
preprocess_data(data_tuple) ==
    [kind |-> "list",
     items |-> [i \in 1..Len(data_tuple) |->
                  LET elem == data_tuple[i]
                      new_elem1 == add_si_base_keys_to_dict(elem)
                      new_elem2 == add_deg_keys_from_rad(elem)
                  IN  new_elem2]]

\* The tables the functions are called on: at most MaxKeys entries.
PostNames == {"v", "v0", "v__l", "v__l__r", "kilov", "v_rad", "v_deg",
              "v_rad_deg", "v_deg_rad"}

PostValues == {Nd(<<2>>, <<Num(1), Num(2)>>),
               Nd(<<2, 2>>, <<Num(1), Num(2), Num(3), Num(5)>>)}

RECURSIVE TablesUpTo(_)
TablesUpTo(n) ==
    IF n = 0 THEN {OD(<<>>)}
    ELSE LET shorter == TablesUpTo(n - 1)
         IN  shorter \cup
             {OD(Append(t.items, Entry(k, v))) :
                 t \in {u \in shorter : Len(u.items) = n - 1},
                 k \in PostNames, v \in PostValues}

PostTables ==
    {t \in TablesUpTo(MaxKeys) : Cardinality(OKeys(t)) = Len(t.items)}

PostInit ==
    /\ post_data \in PostTables
    /\ post_op = "none"
    /\ post_ret = None
    /\ ParseIdle
    /\ MergeIdle
    /\ UnitsIdle
    /\ PlotIdle

PostCall(op, ret) ==
    /\ post_op = "none"
    /\ post_op' = op
    /\ post_ret' = ret
    /\ UNCHANGED post_data
    /\ UNCHANGED <<parseVars, mergeVars, unitsVars, plotVars>>

CallAddFirst == PostCall("add_first_timestamps", add_first_timestamps(post_data))

CallAddSi == PostCall("add_si_base_keys_to_dict", add_si_base_keys_to_dict(post_data))

CallAddDeg == PostCall("add_deg_keys_from_rad", add_deg_keys_from_rad(post_data))

CallPreprocess(n) ==
    PostCall("preprocess_data", preprocess_data([i \in 1..n |-> post_data]))

PostNext ==
    \/ CallAddFirst
    \/ CallAddSi
    \/ CallAddDeg
    \/ \E n \in 1..MaxTuple : CallPreprocess(n)

SpecPost == PostInit /\ [][PostNext]_vars

\* Every entry of table a is in table b, with the same value.
Contains(b, a) ==
    \A k \in OKeys(a) : k \in OKeys(b) /\ OGet(b, k) = OGet(a, k)

\* C7: preprocess_data applies both conversions to every table of its input:
\* each table it returns contains the entries add_si_base_keys_to_dict makes
\* of that table and the entries add_deg_keys_from_rad makes of it.
C7_PreprocessAppliesBoth ==
    (post_op = "preprocess_data") =>
        \A i \in 1..Len(post_ret.items) :
            /\ Contains(post_ret.items[i], add_si_base_keys_to_dict(post_data))
            /\ Contains(post_ret.items[i], add_deg_keys_from_rad(post_data))

\* The path with a 0 put in right after the base name: before the first
\* "__", at the end when there is none.
Insert0(key) ==
    LET occ == Occurrences(key, "__")
    IN  IF occ = {} THEN key \o "0"
        ELSE LET i == CHOOSE x \in occ : \A y \in occ : x <= y
             IN  SubSeq(key, 1, i - 1) \o "0" \o SubSeq(key, i, Len(key))

\* C8: for every leaf path of the table, whatever its number of "__",
\* add_first_timestamps succeeds and its result has the path with a 0 put in
\* after the base name; unless the table itself has that path, the entry
\* holds the leaf's slice at index 0 of the leading axis.
C8_FirstSliceAdded ==
    (post_op = "add_first_timestamps") =>
        /\ post_ret.kind = "odict"
        /\ \A key \in OKeys(post_data) :
              /\ Insert0(key) \in OKeys(post_ret)
              /\ Insert0(key) \notin OKeys(post_data) =>
                    OGet(post_ret, Insert0(key)).data
                        = Slice(OGet(post_data, key), 1).data

\* The name with every "_rad" made "_deg", place by place (no two
\* occurrences of "_rad" overlap).
RECURSIVE DegNameFrom(_, _)
DegNameFrom(key, i) ==
    IF i > Len(key) THEN ""
    ELSE LET at == {j \in Occurrences(key, "_rad") : j <= i /\ i < j + 4}
         IN  (IF at = {} THEN SubSeq(key, i, i)
              ELSE LET j == CHOOSE x \in at : TRUE
                   IN  SubSeq("_deg", i - j + 1, i - j + 1))
                 \o DegNameFrom(key, i + 1)

DegName(key) == DegNameFrom(key, 1)

RECURSIVE Pow10(_)
Pow10(n) == IF n = 0 THEN 1 ELSE 10 * Pow10(n - 1)

\* The array b holds the values of a, in radians, in degrees.
IsDegreesOf(b, a) ==
    /\ b.kind = "nd"
    /\ b.shape = a.shape
    /\ Len(b.data) = Len(a.data)
    /\ \A i \in 1..Len(a.data) :
          /\ b.data[i].p = a.data[i].p - 1
          /\ b.data[i].e >= a.data[i].e
          /\ b.data[i].m * Pow10(b.data[i].e - a.data[i].e) = a.data[i].m * 180

RadKeys(tbl) == {k \in OKeys(tbl) : StrContains(k, "_rad")}

RECURSIVE WhereWithin(_, _, _, _)
WhereWithin(xdata, lower, upper, i) ==
    IF i > Len(xdata) THEN <<>>
    ELSE (IF xdata[i] >= lower /\ xdata[i] <= upper THEN <<i>> ELSE <<>>)
             \o WhereWithin(xdata, lower, upper, i + 1)

\* xdata[idx], np.take(ydata, idx, axis=0)
np_take(arr, idx) == [j \in 1..Len(idx) |-> arr[idx[j]]]

trim_data_to_bounds(xdata, ydata, lower, upper) ==
    LET idx == WhereWithin(xdata, lower, upper, 1)
    IN  [x |-> np_take(xdata, idx), y |-> np_take(ydata, idx)]

\* np.min, np.max of a non-empty array
np_min(arr) == CHOOSE v \in {arr[i] : i \in 1..Len(arr)} :
                  \A i \in 1..Len(arr) : v <= arr[i]

np_max(arr) == CHOOSE v \in {arr[i] : i \in 1..Len(arr)} :
                  \A i \in 1..Len(arr) : v >= arr[i]

\* TimeSeriesPlotter.data_lower_bound, data_upper_bound
data_lower_bound == np_min(plot_xdata)

data_upper_bound == np_max(plot_xdata)

\* SelectionPlotter.lower_bound, upper_bound, get_bounds()
lower_bound == _lower_bound

upper_bound == _upper_bound

get_bounds == <<lower_bound, upper_bound>>

\* The samples of the plotter and the arguments of update_bounds.
XValues == 1..3

BoundArgs == 0..4

PlotSamples ==
    {xs \in SeqsUpTo(XValues, MaxSamples) : Len(xs) >= 1}

\* TimeSeriesPlotter(xdata, ydata, ...): __post_init__ sets the bounds to
\* the data's and plots the whole of the data as the highlight.
PlotInit ==
    /\ plot_xdata \in PlotSamples
    /\ plot_ydata = [i \in 1..Len(plot_xdata) |-> 10 * i]
    /\ _lower_bound = np_min(plot_xdata)
    /\ _upper_bound = np_max(plot_xdata)
    /\ _highlight_plot = [x |-> plot_xdata, y |-> plot_ydata]
    /\ ParseIdle
    /\ MergeIdle
    /\ PostIdle
    /\ UnitsIdle

\* update_bounds(lower, upper): the bounds are set to the arguments, and
\* redraw_plot has _update_plot show the samples within them.
update_bounds(lower, upper) ==
    /\ _lower_bound' = lower
    /\ _upper_bound' = upper
    /\ _highlight_plot' = trim_data_to_bounds(plot_xdata, plot_ydata,
                                              _lower_bound', _upper_bound')
    /\ UNCHANGED <<plot_xdata, plot_ydata>>
    /\ UNCHANGED <<parseVars, mergeVars, postVars, unitsVars>>

PlotNext == \E lower \in BoundArgs : \E upper \in BoundArgs : update_bounds(lower, upper)

SpecPlot == PlotInit /\ [][PlotNext]_vars

\* C11: after any sequence of update_bounds calls, with arguments possibly
\* outside the data's range, the bounds get_bounds reports are clamped to the
\* data's range: data_lower_bound <= lower_bound and
\* upper_bound <= data_upper_bound.
C11_BoundsClamped ==
    (plot_xdata # <<>>) =>
        /\ data_lower_bound <= get_bounds[1]
        /\ get_bounds[2] <= data_upper_bound

\* What does hold: get_bounds reports the arguments of the last
\* update_bounds as they were given, and the highlight is within them.
C11_HighlightWithinBounds ==
    (plot_xdata # <<>>) =>
        \A i \in 1..Len(_highlight_plot.x) :
            /\ get_bounds[1] <= _highlight_plot.x[i]
            /\ _highlight_plot.x[i] <= get_bounds[2]

====
